---- MODULE Spec2Model ----
(***************************************************************************)
(* PDFProcessor of bedrock_inference.py: one processor object, its three   *)
(* job parameters, and process() as the sequence of its blocking external  *)
(* calls (S3 get_object, pdf2image render, Bedrock invoke_model, S3        *)
(* put_object) with the try/except of process() around them.               *)
(*                                                                         *)
(* Python strings that the code takes apart (input key, uuid, output key)  *)
(* are sequences of one-character strings.  None and "" are both falsy and *)
(* are only ever tested for truth before use, so both are the empty        *)
(* sequence.  Exception messages are TLA+ strings, concatenated as the     *)
(* f-strings of the code concatenate them.                                 *)
(***************************************************************************)
EXTENDS Integers, Sequences, FiniteSets, TLC

VARIABLES
    input_bucket,       \* self.input_bucket
    input_key,          \* self.input_key
    uuid,               \* self.uuid
    pc,                 \* position of process(): idle, fetch, rasterize, build,
                        \* invoke, write, except, done
    now,                \* the wall clock, in ticks
    start_time,         \* local start_time of process()
    pdf_data,           \* local pdf_data
    pdf_base64_images,  \* local pdf_base64_images
    bedrock_payload,    \* local bedrock_payload
    response,           \* the bytes read from response['body']
    results,            \* local results (the SUCCESS envelope)
    exc,                \* the exception bound to e in the except clause
    failed_stage,       \* which stage raised exc ("none" while nothing raised)
    ret,                \* how the last process() call ended
    calls,              \* external calls issued by the current run, in order
    store,              \* the bucket namespace: set of [Bucket, Key, Body, ContentType]
    puts,               \* every put_object issued so far: [uuid, input_key, Bucket, Key]
    runs                \* number of process() calls started

vars == <<input_bucket, input_key, uuid, pc, now, start_time, pdf_data,
          pdf_base64_images, bedrock_payload, response, results, exc,
          failed_stage, ret, calls, store, puts, runs>>

(***************************************************************************)
(* Bounds of the model.                                                    *)
(***************************************************************************)
MaxRuns == 2
MaxClock == 2
MaxPages == 2

\* The clock has sub-second resolution; "%Y%m%d_%H%M%S" keeps whole seconds.
TicksPerSecond == 2

(***************************************************************************)
(* Character strings.                                                      *)
(***************************************************************************)
None == << >>

Truthy(s) == s # << >>

\* str.rfind(c), 1-based: the last index of c in s, 0 when c does not occur.
rfind(s, c) ==
    LET hits == {i \in 1..Len(s) : s[i] = c}
    IN  IF hits = {} THEN 0 ELSE CHOOSE i \in hits : \A j \in hits : j <= i

\* os.path.basename (posixpath): everything after the last "/".
basename(p) == SubSeq(p, rfind(p, "/") + 1, Len(p))

\* os.path.splitext(p)[0] (genericpath._splitext): cut at the last dot, unless
\* that dot belongs to the leading dots of the last path component.
splitext0(p) ==
    LET sepIndex == rfind(p, "/")
        dotIndex == rfind(p, ".")
    IN  IF dotIndex > sepIndex
             /\ \E i \in (sepIndex + 1)..(dotIndex - 1) : p[i] # "."
        THEN SubSeq(p, 1, dotIndex - 1)
        ELSE p

PdfResultsPrefix == <<"p", "d", "f", "_", "r", "e", "s", "u", "l", "t", "s", "/">>

ResultsSuffix == <<"_", "r", "e", "s", "u", "l", "t", "s", ".", "j", "s", "o", "n">>

\* The output key built from the whole input key, directories included.
output_key_whole_key(u, k) ==
    PdfResultsPrefix \o u \o <<"/">> \o splitext0(k) \o ResultsSuffix

\* The output key that keeps the extension of the input key.
output_key_with_extension(u, k) ==
    PdfResultsPrefix \o u \o <<"/">> \o basename(k) \o ResultsSuffix

\* f"pdf_results/{self.uuid}/{splitext(basename(self.input_key))[0]}_results.json"
output_key(u, k) ==
    PdfResultsPrefix \o u \o <<"/">> \o splitext0(basename(k)) \o ResultsSuffix

(***************************************************************************)
(* Values supplied by the caller of set_input / set_uuid.                  *)
(***************************************************************************)
Buckets == { None, <<"B">> }

Keys == { None,
          <<"a", "/", "r", ".", "p">>,      \* a/r.p
          <<"r", ".", "q">> }               \* r.q

Uuids == { None, <<"1">>, <<"1", "/", "a">> }

(***************************************************************************)
(* Time.                                                                   *)
(***************************************************************************)
\* datetime.now().strftime("%Y%m%d_%H%M%S"): the whole seconds of the clock.
\* The text is fixed-width, so it orders as the number of seconds does.
strftime(t) == t \div TicksPerSecond

(***************************************************************************)
(* Exceptions.                                                             *)
(***************************************************************************)
Exception(type, msg) == [type |-> type, msg |-> msg]

PDFProcessingError(msg) == Exception("PDFProcessingError", msg)

NoException == Exception("", "")

\* str(e) of what the external libraries raise.  botocore formats a text for
\* each of its exceptions; MemoryError() has the empty text.
ClientErrorMsg == "An error occurred (Code) when calling the Operation operation"

ConnectionErrorMsg == "Could not connect to the endpoint URL"

(***************************************************************************)
(* Results of the methods: a returned value or a raised exception.         *)
(***************************************************************************)
Return(v) == [ok |-> TRUE, val |-> v, exc |-> NoException]

Raise(e) == [ok |-> FALSE, val |-> << >>, exc |-> e]

(***************************************************************************)
(* What the external services can answer.                                  *)
(***************************************************************************)
\* The bytes an S3 object can hold: nothing, a PDF of some pages (page i of
\* a document is told from its other pages by its number), or no PDF.
EmptyBytes == [kind |-> "empty", pages |-> << >>]

NoBytes == [kind |-> "unset", pages |-> << >>]

S3Objects ==
    {EmptyBytes, [kind |-> "garbage", pages |-> << >>]}
        \cup {[kind |-> "pdf", pages |-> [i \in 1..n |-> i]] : n \in 0..MaxPages}

\* s3_client.get_object(...)['Body'].read()
GetOutcomes ==
    {Return(d) : d \in S3Objects}
        \cup {Raise(Exception("ClientError", ClientErrorMsg)),
              Raise(Exception("EndpointConnectionError", ConnectionErrorMsg))}

\* s3_client.put_object(...)
PutOutcomes ==
    {Return(<< >>),
     Raise(Exception("ClientError", ClientErrorMsg)),
     Raise(Exception("EndpointConnectionError", ConnectionErrorMsg))}

\* Text and bytes: json.dumps / json.loads and str.encode / bytes.decode.
json_dumps(v) == [is_json |-> TRUE, value |-> v]

\* json.loads taking any text for a result, JSON or not.
json_loads_lenient(text) == Return(text.value)

json_loads(text) ==
    IF text.is_json THEN Return(text.value)
    ELSE Raise(Exception("JSONDecodeError", "Expecting value: line 1 column 1 (char 0)"))

utf8_encode(text) == [valid_utf8 |-> TRUE, text |-> text]

utf8_decode(bytes) ==
    IF bytes.valid_utf8 THEN Return(bytes.text)
    ELSE Raise(Exception("UnicodeDecodeError", "'utf-8' codec can't decode byte 0xff"))

ModelResponses == {"R1", "R2"}

ResponseBodies ==
    {utf8_encode(json_dumps(v)) : v \in ModelResponses}
        \cup {utf8_encode([is_json |-> FALSE, value |-> "<html>"]),
              [valid_utf8 |-> FALSE, text |-> [is_json |-> FALSE, value |-> ""]]}

NoResponse == [valid_utf8 |-> FALSE, text |-> [is_json |-> FALSE, value |-> "unset"]]

\* bedrock_client.invoke_model(...)['body'].read()
InvokeOutcomes ==
    {Return(b) : b \in ResponseBodies}
        \cup {Raise(Exception("ClientError", ClientErrorMsg))}

(***************************************************************************)
(* pdf_to_base64_images                                                    *)
(***************************************************************************)
\* convert_from_bytes(pdf_data, dpi=300): one PIL image per page, in page order.
convert_from_bytes(data) ==
    IF data.kind = "pdf"
    THEN Return([i \in 1..Len(data.pages) |-> [image |-> data.pages[i], dpi |-> 300]])
    ELSE Raise(Exception("PDFPageCountError", "Unable to get page count."))

\* img.save(img_buffer, format="PNG"); img_buffer.getvalue()
save_png(img) == [format |-> "PNG", of |-> img.image]

\* base64.b64encode(...).decode("utf-8")
b64encode(bytes) == [b64 |-> bytes]

\* The for loop putting each encoded page in front of the list, not at its end.
RECURSIVE encode_loop_prepend(_, _, _)
encode_loop_prepend(images, base64_images, failAt) ==
    IF images = << >> THEN Return(base64_images)
    ELSE IF failAt = 1 THEN Raise(Exception("OSError", "cannot write PNG"))
    ELSE encode_loop_prepend(Tail(images),
                             <<b64encode(save_png(Head(images)))>> \o base64_images,
                             IF failAt = 0 THEN 0 ELSE failAt - 1)

\* The for loop giving back the pages encoded so far when a page fails.
RECURSIVE encode_loop_partial(_, _, _)
encode_loop_partial(images, base64_images, failAt) ==
    IF images = << >> \/ failAt = 1 THEN Return(base64_images)
    ELSE encode_loop_partial(Tail(images),
                             Append(base64_images, b64encode(save_png(Head(images)))),
                             IF failAt = 0 THEN 0 ELSE failAt - 1)

\* The for loop: images still to encode, the list built so far, and the index
\* (counted from the current head) of the image whose save raises, 0 for none.
RECURSIVE encode_loop(_, _, _)
encode_loop(images, base64_images, failAt) ==
    IF images = << >> THEN Return(base64_images)
    ELSE IF failAt = 1 THEN Raise(Exception("OSError", "cannot write PNG"))
    ELSE encode_loop(Tail(images),
                     Append(base64_images, b64encode(save_png(Head(images)))),
                     IF failAt = 0 THEN 0 ELSE failAt - 1)

pdf_to_base64_images(data, convertOk, failAt) ==
    LET converted == IF convertOk THEN convert_from_bytes(data)
                     ELSE Raise(Exception("PDFInfoNotInstalledError",
                                          "Unable to get page count. Is poppler installed?"))
        encoded == IF converted.ok THEN encode_loop(converted.val, << >>, failAt)
                   ELSE converted
    IN  IF encoded.ok THEN encoded
        ELSE Raise(PDFProcessingError("Failed to convert PDF to images: " \o encoded.exc.msg))

(***************************************************************************)
(* prepare_bedrock_payload                                                 *)
(***************************************************************************)
TextSegment == [type |-> "text", text |-> "Analyze this document and summarize the content."]

ImageSegment(img_str) ==
    [type |-> "image",
     source |-> [type |-> "base64", media_type |-> "image/png", data |-> img_str]]

NoPayload == [anthropic_version |-> "", max_tokens |-> 0, messages |-> << >>]

\* prepare_bedrock_payload without the check for an empty list.
prepare_bedrock_payload_unchecked(images) ==
    Return([anthropic_version |-> "bedrock-2023-05-31",
            max_tokens |-> 2048,
            messages |-> << [role |-> "user",
                             content |-> <<TextSegment>>
                                 \o [i \in 1..Len(images) |-> ImageSegment(images[i])]] >>])

\* prepare_bedrock_payload with the instruction text after the images.
prepare_bedrock_payload_text_last(images) ==
    IF images = << >>
    THEN Raise(PDFProcessingError("Failed to prepare PDF payload: "
                                    \o "No valid Base64 images found in PDF"))
    ELSE Return([anthropic_version |-> "bedrock-2023-05-31",
                 max_tokens |-> 2048,
                 messages |-> << [role |-> "user",
                                  content |-> [i \in 1..Len(images) |-> ImageSegment(images[i])]
                                      \o <<TextSegment>>] >>])

prepare_bedrock_payload(images) ==
    IF images = << >>
    THEN Raise(PDFProcessingError("Failed to prepare PDF payload: "
                                    \o "No valid Base64 images found in PDF"))
    ELSE Return([anthropic_version |-> "bedrock-2023-05-31",
                 max_tokens |-> 2048,
                 messages |-> << [role |-> "user",
                                  content |-> <<TextSegment>>
                                      \o [i \in 1..Len(images) |-> ImageSegment(images[i])]] >>])

(***************************************************************************)
(* read_pdf_from_s3 and write_results_to_s3, given the service's answer.   *)
(***************************************************************************)
read_pdf_from_s3(bucket, key, answer) ==
    IF ~Truthy(bucket) \/ ~Truthy(key)
    THEN Raise(PDFProcessingError("S3 bucket or input key is not set."))
    ELSE IF answer.ok THEN answer
    ELSE IF answer.exc.type = "ClientError"
    THEN Raise(PDFProcessingError("Failed to read PDF from S3: " \o answer.exc.msg))
    ELSE answer

\* Lines 141-143: read_pdf_from_s3, then the check for an empty payload.
fetch_stage(bucket, key, answer) ==
    LET r == read_pdf_from_s3(bucket, key, answer)
    IN  IF r.ok /\ r.val = EmptyBytes
        THEN Raise(PDFProcessingError("No PDF data received from S3"))
        ELSE r

\* Lines 152-158: json.dumps of the request (it can run out of memory on the
\* images of a large document), invoke_model, and the decoding of the answer.
invoke_stage(dumpsOk, answer) ==
    IF ~dumpsOk THEN Raise(Exception("MemoryError", ""))
    ELSE LET decoded == IF answer.ok THEN utf8_decode(answer.val) ELSE answer
         IN  IF decoded.ok THEN json_loads(decoded.val) ELSE decoded

write_results_to_s3(bucket, key, u, answer) ==
    IF ~Truthy(bucket) \/ ~Truthy(key) \/ ~Truthy(u)
    THEN Raise(PDFProcessingError("S3 bucket, input key, or UUID is not set."))
    ELSE IF answer.ok THEN answer
    ELSE IF answer.exc.type = "ClientError"
    THEN Raise(PDFProcessingError("S3 write error: " \o answer.exc.msg))
    ELSE answer

\* The object put_object stores for an envelope.
PutObject(bucket, key, u, envelope) ==
    [Bucket |-> bucket, Key |-> output_key(u, key),
     Body |-> json_dumps(envelope), ContentType |-> "application/json"]

(***************************************************************************)
(* Result envelopes.                                                       *)
(***************************************************************************)
NoEnvelope == [status |-> "NONE"]

\* The SUCCESS envelope with the two timestamps in each other's field.
SuccessEnvelope_times_swapped(key, start, end, inference_results) ==
    [pdf_key |-> key,
     processing_start_time |-> end,
     processing_end_time |-> start,
     status |-> "SUCCESS",
     analysis_results |-> inference_results]

SuccessEnvelope(key, start, end, inference_results) ==
    [pdf_key |-> key,
     processing_start_time |-> start,
     processing_end_time |-> end,
     status |-> "SUCCESS",
     analysis_results |-> inference_results]

\* error_response with the message and the class name in each other's place.
error_response_swapped(key, start, end, e) ==
    [pdf_key |-> key,
     processing_start_time |-> start,
     processing_end_time |-> end,
     status |-> "FAILED",
     error |-> e.type,
     error_type |-> e.msg]

error_response(key, start, end, e) ==
    [pdf_key |-> key,
     processing_start_time |-> start,
     processing_end_time |-> end,
     status |-> "FAILED",
     error |-> e.msg,
     error_type |-> e.type]

NoOutcome == [kind |-> "none", value |-> NoEnvelope, exc |-> NoException]

(***************************************************************************)
(* The processor.                                                          *)
(***************************************************************************)
Init ==
    /\ input_bucket = None
    /\ input_key = None
    /\ uuid = None
    /\ pc = "idle"
    /\ now = 0
    /\ start_time = 0
    /\ pdf_data = NoBytes
    /\ pdf_base64_images = << >>
    /\ bedrock_payload = NoPayload
    /\ response = NoResponse
    /\ results = NoEnvelope
    /\ exc = NoException
    /\ failed_stage = "none"
    /\ ret = NoOutcome
    /\ calls = << >>
    /\ store = {}
    /\ puts = {}
    /\ runs = 0

locals == <<start_time, pdf_data, pdf_base64_images, bedrock_payload, response,
            results, exc, failed_stage>>

params == <<input_bucket, input_key, uuid>>

\* process() is a blocking call: the caller runs only between two calls of it.
NotRunning == pc = "idle"

set_input ==
    /\ NotRunning
    /\ \E bucket \in Buckets, key \in Keys :
          /\ input_bucket' = bucket
          /\ input_key' = key
    /\ UNCHANGED <<uuid, pc, now, locals, ret, calls, store, puts, runs>>

set_uuid ==
    /\ NotRunning
    /\ \E u \in Uuids : uuid' = u
    /\ UNCHANGED <<input_bucket, input_key, pc, now, locals, ret, calls, store, puts, runs>>

\* The clock advances while process() is blocked in a call or between two lines.
Tick ==
    /\ pc \notin {"idle", "done"}
    /\ now < MaxClock
    /\ now' = now + 1
    /\ UNCHANGED <<params, pc, locals, ret, calls, store, puts, runs>>

\* process() returns: its local variables are gone.  exc and failed_stage stay
\* as the record of what the run raised, until the next call.
Discard ==
    /\ start_time' = 0
    /\ pdf_data' = NoBytes
    /\ pdf_base64_images' = << >>
    /\ bedrock_payload' = NoPayload
    /\ response' = NoResponse
    /\ results' = NoEnvelope

\* A stage raised e: control passes to the except clause of process().
RaiseIn(stage, e) ==
    /\ exc' = e
    /\ failed_stage' = stage
    /\ pc' = "except"

\* process() starting without the check of line 134.
process_entry_unchecked ==
    /\ NotRunning
    /\ runs < MaxRuns
    /\ runs' = runs + 1
    /\ calls' = << >>
    /\ pdf_data' = NoBytes
    /\ pdf_base64_images' = << >>
    /\ bedrock_payload' = NoPayload
    /\ response' = NoResponse
    /\ results' = NoEnvelope
    /\ exc' = NoException
    /\ failed_stage' = "none"
    /\ ret' = NoOutcome
    /\ pc' = "fetch"
    /\ start_time' = strftime(now)
    /\ UNCHANGED <<params, now, store, puts>>

\* Lines 134-137: the parameter check and the start timestamp.
process_entry ==
    /\ NotRunning
    /\ runs < MaxRuns
    /\ runs' = runs + 1
    /\ calls' = << >>
    /\ pdf_data' = NoBytes
    /\ pdf_base64_images' = << >>
    /\ bedrock_payload' = NoPayload
    /\ response' = NoResponse
    /\ results' = NoEnvelope
    /\ exc' = NoException
    /\ failed_stage' = "none"
    /\ IF ~Truthy(input_bucket) \/ ~Truthy(input_key) \/ ~Truthy(uuid)
       THEN /\ ret' = [kind |-> "raise", value |-> NoEnvelope,
                       exc |-> PDFProcessingError(
                          "Missing required parameters: input_bucket, input_key, or uuid.")]
            /\ pc' = "done"
            /\ start_time' = 0
       ELSE /\ ret' = NoOutcome
            /\ pc' = "fetch"
            /\ start_time' = strftime(now)
    /\ UNCHANGED <<params, now, store, puts>>

\* Lines 141-143: read_pdf_from_s3 and the empty-payload check.
process_fetch ==
    /\ pc = "fetch"
    /\ \E answer \in GetOutcomes :
          LET r == fetch_stage(input_bucket, input_key, answer)
          IN  /\ calls' = IF Truthy(input_bucket) /\ Truthy(input_key)
                          THEN Append(calls, "get_object") ELSE calls
              /\ pdf_data' = IF answer.ok THEN answer.val ELSE pdf_data
              /\ IF r.ok
                 THEN /\ pc' = "rasterize"
                      /\ UNCHANGED <<exc, failed_stage>>
                 ELSE RaiseIn("fetch", r.exc)
    /\ UNCHANGED <<params, now, start_time, pdf_base64_images, bedrock_payload,
                   response, results, ret, store, puts, runs>>

\* Line 146: pdf_to_base64_images.
process_rasterize ==
    /\ pc = "rasterize"
    /\ \E convertOk \in BOOLEAN, failAt \in 0..Len(pdf_data.pages) :
          LET r == pdf_to_base64_images(pdf_data, convertOk, failAt)
          IN  IF r.ok
              THEN /\ pdf_base64_images' = r.val
                   /\ pc' = "build"
                   /\ UNCHANGED <<exc, failed_stage>>
              ELSE /\ RaiseIn("rasterize", r.exc)
                   /\ UNCHANGED pdf_base64_images
    /\ calls' = Append(calls, "convert_from_bytes")
    /\ UNCHANGED <<params, now, start_time, pdf_data, bedrock_payload, response,
                   results, ret, store, puts, runs>>

\* Line 150: prepare_bedrock_payload.
process_build ==
    /\ pc = "build"
    /\ LET r == prepare_bedrock_payload(pdf_base64_images)
       IN  IF r.ok
           THEN /\ bedrock_payload' = r.val
                /\ pc' = "invoke"
                /\ UNCHANGED <<exc, failed_stage>>
           ELSE /\ RaiseIn("build", r.exc)
                /\ UNCHANGED bedrock_payload
    /\ UNCHANGED <<params, now, start_time, pdf_data, pdf_base64_images, response,
                   results, ret, calls, store, puts, runs>>

\* Lines 152-167: the request is serialized and sent, the answer decoded, and
\* the SUCCESS envelope built with its end timestamp.
process_invoke ==
    /\ pc = "invoke"
    /\ \E dumpsOk \in BOOLEAN, answer \in InvokeOutcomes :
          LET r == invoke_stage(dumpsOk, answer)
          IN  /\ calls' = IF dumpsOk THEN Append(calls, "invoke_model") ELSE calls
              /\ response' = IF dumpsOk /\ answer.ok THEN answer.val ELSE response
              /\ IF r.ok
                 THEN /\ results' = SuccessEnvelope(input_key, start_time,
                                                    strftime(now), r.val)
                      /\ pc' = "write"
                      /\ UNCHANGED <<exc, failed_stage>>
                 ELSE /\ RaiseIn("invoke", r.exc)
                      /\ UNCHANGED results
    /\ UNCHANGED <<params, now, start_time, pdf_data, pdf_base64_images,
                   bedrock_payload, ret, store, puts, runs>>

\* write_results_to_s3 whose failure is logged and dropped: process() goes on
\* to return results.
process_write_swallow ==
    /\ pc = "write"
    /\ \E answer \in PutOutcomes :
          LET r == write_results_to_s3(input_bucket, input_key, uuid, answer)
              obj == PutObject(input_bucket, input_key, uuid, results)
          IN  /\ calls' = Append(calls, "put_object")
              /\ puts' = puts \cup {[uuid |-> uuid, input_key |-> input_key,
                                      Bucket |-> obj.Bucket, Key |-> obj.Key]}
              /\ store' = IF r.ok
                          THEN {o \in store : ~(o.Bucket = obj.Bucket /\ o.Key = obj.Key)}
                                   \cup {obj}
                          ELSE store
              /\ ret' = [kind |-> "return", value |-> results, exc |-> NoException]
              /\ pc' = "done"
              /\ Discard
    /\ UNCHANGED <<params, now, runs, exc, failed_stage>>

\* Lines 170-172: write_results_to_s3(results) inside the try, then return.
process_write ==
    /\ pc = "write"
    /\ \E answer \in PutOutcomes :
          LET r == write_results_to_s3(input_bucket, input_key, uuid, answer)
              obj == PutObject(input_bucket, input_key, uuid, results)
              issued == Truthy(input_bucket) /\ Truthy(input_key) /\ Truthy(uuid)
          IN  /\ calls' = IF issued THEN Append(calls, "put_object") ELSE calls
              /\ puts' = IF issued
                         THEN puts \cup {[uuid |-> uuid, input_key |-> input_key,
                                          Bucket |-> obj.Bucket, Key |-> obj.Key]}
                         ELSE puts
              /\ IF r.ok
                 THEN /\ store' = {o \in store : ~(o.Bucket = obj.Bucket /\ o.Key = obj.Key)}
                                      \cup {obj}
                      /\ ret' = [kind |-> "return", value |-> results, exc |-> NoException]
                      /\ pc' = "done"
                      /\ Discard
                      /\ UNCHANGED <<exc, failed_stage>>
                 ELSE /\ RaiseIn("write", r.exc)
                      /\ UNCHANGED <<store, ret, start_time, pdf_data, response,
                                     pdf_base64_images, bedrock_payload, results>>
    /\ UNCHANGED <<params, now, runs>>

\* The except clause letting the exception go on to the caller.
process_except_reraise ==
    /\ pc = "except"
    /\ ret' = [kind |-> "raise", value |-> NoEnvelope, exc |-> exc]
    /\ pc' = "done"
    /\ Discard
    /\ UNCHANGED <<params, now, exc, failed_stage, calls, store, puts, runs>>

\* The except clause starting the pipeline again instead of returning.
process_except_retry ==
    /\ pc = "except"
    /\ pc' = "fetch"
    /\ exc' = NoException
    /\ failed_stage' = "none"
    /\ UNCHANGED <<params, now, start_time, pdf_data, pdf_base64_images,
                   bedrock_payload, response, results, ret, calls, store, puts, runs>>

\* Lines 174-184: except Exception as e: build error_response and return it.
process_except ==
    /\ pc = "except"
    /\ ret' = [kind |-> "return",
               value |-> error_response(input_key, start_time, strftime(now), exc),
               exc |-> NoException]
    /\ pc' = "done"
    /\ Discard
    /\ UNCHANGED <<params, now, exc, failed_stage, calls, store, puts, runs>>

\* Lines 196-197: the caller takes what process() returned (or the exception
\* it raised) and logs it; the processor can be configured and run again.
caller_done ==
    /\ pc = "done"
    /\ pc' = "idle"
    /\ ret' = NoOutcome
    /\ calls' = << >>
    /\ exc' = NoException
    /\ failed_stage' = "none"
    /\ UNCHANGED <<params, now, start_time, pdf_data, pdf_base64_images,
                   bedrock_payload, response, results, store, puts, runs>>

\* The steps of a started run, from the storage read to the return.
process_step ==
    \/ process_fetch
    \/ process_rasterize
    \/ process_build
    \/ process_invoke
    \/ process_write
    \/ process_except

process ==
    \/ process_entry
    \/ process_step

Next ==
    \/ set_input
    \/ set_uuid
    \/ Tick
    \/ process
    \/ caller_done

Spec == Init /\ [][Next]_vars

(***************************************************************************)
(* Vocabulary of the properties.                                           *)
(***************************************************************************)
Range(q) == {q[i] : i \in DOMAIN q}

Count(q, x) == Cardinality({i \in DOMAIN q : q[i] = x})

ParamsSet == Truthy(input_bucket) /\ Truthy(input_key) /\ Truthy(uuid)

\* A run that passed the parameter check has ended; the caller has not yet
\* taken the outcome.
RunDone == pc = "done" /\ ParamsSet

ProcessingStages == {"fetch", "rasterize", "build", "invoke"}

\* The exceptions a stage can hand to the except clause of process().
CanRaise(stage) ==
    LET failures(rs) == {r.exc : r \in {x \in rs : ~x.ok}}
    IN  CASE stage = "fetch" ->
               failures({fetch_stage(<<"B">>, <<"k">>, a) : a \in GetOutcomes})
          [] stage = "rasterize" ->
               failures({pdf_to_base64_images(d, c, f) :
                            d \in S3Objects \ {EmptyBytes}, c \in BOOLEAN, f \in 0..MaxPages})
          [] stage = "build" ->
               failures({prepare_bedrock_payload(imgs) : imgs \in {<< >>}})
          [] stage = "invoke" ->
               failures({invoke_stage(d, a) : d \in BOOLEAN, a \in InvokeOutcomes})
          [] OTHER -> {}

EnvelopeBase == {"pdf_key", "processing_start_time", "processing_end_time", "status"}

(***************************************************************************)
(* C1.  Whichever of fetch, rasterize, request build or inference fails,   *)
(* the run has attempted one storage put (of the FAILED envelope) by the   *)
(* time it ends.                                                           *)
(* The code does not: the except clause returns error_response without     *)
(* calling write_results_to_s3.                                            *)
(***************************************************************************)
C1_FailureStillWritten ==
    (RunDone /\ failed_stage \in ProcessingStages) => "put_object" \in Range(calls)

(***************************************************************************)
(* C2.  A failure of the storage write leaves process() as an error raised *)
(* to the caller, not as a returned envelope.                              *)
(* The code does not: the write is inside the try, so its failure is       *)
(* caught and returned as a FAILED envelope.                               *)
(***************************************************************************)
C2_WriteFailurePropagates ==
    (RunDone /\ failed_stage = "write") => ret.kind = "raise"

(***************************************************************************)
(* C3.  A run that started processing and ended has issued exactly one     *)
(* storage put.                                                            *)
(* The code issues none on the failure paths.                              *)
(***************************************************************************)
C3_ExactlyOnePut ==
    RunDone => Count(calls, "put_object") = 1

OneShape(envelope) ==
    \/ /\ envelope.status = "SUCCESS"
       /\ DOMAIN envelope = EnvelopeBase \cup {"analysis_results"}
    \/ /\ envelope.status = "FAILED"
       /\ DOMAIN envelope = EnvelopeBase \cup {"error", "error_type"}

IsSuccessOf(envelope, key, body) ==
    /\ envelope.status = "SUCCESS"
    /\ DOMAIN envelope = EnvelopeBase \cup {"analysis_results"}
    /\ envelope.pdf_key = key
    /\ body = utf8_encode(json_dumps(envelope.analysis_results))

ImageSegments(payload) ==
    IF payload.messages = << >> THEN {}
    ELSE {i \in DOMAIN payload.messages[1].content :
             payload.messages[1].content[i].type = "image"}

RasterizerReturnedEmpty ==
    /\ "convert_from_bytes" \in Range(calls)
    /\ failed_stage # "rasterize"
    /\ pc \in {"build", "invoke", "write", "except"}
    /\ pdf_base64_images = << >>

C6_NoImagelessInference ==
    /\ (pc \in {"invoke", "write"} \/ (pc = "except" /\ "invoke_model" \in Range(calls)))
          => ImageSegments(bedrock_payload) # {}
    /\ RasterizerReturnedEmpty =>
          /\ "invoke_model" \notin Range(calls)
          /\ pc = "build"
                \/ /\ pc = "except"
                   /\ failed_stage = "build"
                   /\ exc = PDFProcessingError("Failed to prepare PDF payload: "
                                                 \o "No valid Base64 images found in PDF")
    /\ (pc = "done" /\ failed_stage = "build") => "invoke_model" \notin Range(calls)

C6_Witness ==
    /\ pc = "done"
    /\ failed_stage = "build"
    /\ calls = <<"get_object", "convert_from_bytes">>
    /\ ret.value.status = "FAILED"

(***************************************************************************)
(* C7.  A storage read that returns no bytes is a fetch failure: neither   *)
(* the rasterizer nor the model is called, and the FAILED envelope is      *)
(* written at the output key of the run.                                   *)
(* The code returns the envelope without writing it (see C1).              *)
(***************************************************************************)
EmptyPayloadRun ==
    /\ RunDone
    /\ failed_stage = "fetch"
    /\ exc = PDFProcessingError("No PDF data received from S3")

C7_EmptyPayloadWritten ==
    EmptyPayloadRun =>
        /\ "convert_from_bytes" \notin Range(calls)
        /\ "invoke_model" \notin Range(calls)
        /\ ret.kind = "return"
        /\ ret.value.status = "FAILED"
        /\ "put_object" \in Range(calls)
        /\ \E o \in store :
              /\ o.Key = output_key(uuid, input_key)
              /\ o.Body = json_dumps(ret.value)

(***************************************************************************)
(* C8.  Every run that passed the parameter check ends, and it ends by     *)
(* returning an envelope with status SUCCESS or FAILED; it never ends by   *)
(* raising.  Termination, given that each external call returns or fails:  *)
(* a started run always has a next step to take, and every step moves it   *)
(* strictly forward in the order fetch, rasterize, build, invoke, write,   *)
(* except, done.                                                           *)
(***************************************************************************)
PcRank ==
    CASE pc = "idle" -> 0
      [] pc = "fetch" -> 1
      [] pc = "rasterize" -> 2
      [] pc = "build" -> 3
      [] pc = "invoke" -> 4
      [] pc = "write" -> 5
      [] pc = "except" -> 6
      [] pc = "done" -> 7

InRun == pc \in {"fetch", "rasterize", "build", "invoke", "write", "except"}

C8_YieldsEnvelope ==
    /\ [](RunDone => (ret.kind = "return" /\ ret.value.status \in {"SUCCESS", "FAILED"}))
    /\ [](InRun => ENABLED process_step)
    /\ [][process_step => (PcRank' > PcRank)]_vars

C8_Witness ==
    /\ RunDone
    /\ failed_stage = "invoke"
    /\ ret.kind = "return"
    /\ ret.value.status = "FAILED"

(***************************************************************************)
(* C9.  Every put goes to pdf_results/<uuid>/<stem>_results.json, where    *)
(* <stem> is the last component of the input key without its extension;    *)
(* puts of the same (uuid, input key) go to the same key, and puts of      *)
(* different uuids go to different keys, whatever their input keys.        *)
(***************************************************************************)
\* The last path component of k without its extension, said without the
\* library: the piece after the last "/" and before the last "." that has
\* something other than dots in front of it.
Stems(k) ==
    {SubSeq(k, i + 1, j) : <<i, j>> \in
        {ij \in (0..Len(k)) \X (0..Len(k)) :
            LET i == ij[1]
                j == ij[2]
            IN  /\ i <= j
                /\ i = 0 \/ k[i] = "/"
                /\ \A n \in (i + 1)..Len(k) : k[n] # "/"
                /\ IF j = Len(k)
                   THEN ~ \E d \in (i + 1)..Len(k) :
                             k[d] = "." /\ \E m \in (i + 1)..(d - 1) : k[m] # "."
                   ELSE /\ k[j + 1] = "."
                        /\ \A n \in (j + 2)..Len(k) : k[n] # "."
                        /\ \E m \in (i + 1)..j : k[m] # "."}}

C9_OutputLocation ==
    /\ \A p \in puts :
          p.Key \in {PdfResultsPrefix \o p.uuid \o <<"/">> \o stem \o ResultsSuffix :
                        stem \in Stems(p.input_key)}
    /\ \A p, q \in puts :
          /\ (p.uuid = q.uuid /\ p.input_key = q.input_key) => p.Key = q.Key
          /\ p.uuid # q.uuid => p.Key # q.Key

C9_Witness ==
    \E p, q \in puts :
        /\ p.uuid = <<"1">> /\ p.input_key = <<"a", "/", "r", ".", "p">>
        /\ q.uuid = <<"1", "/", "a">> /\ q.input_key = <<"r", ".", "q">>

(***************************************************************************)
(* C10.  No retries: within one run each external call (get_object, the    *)
(* PDF render, invoke_model, put_object) is issued at most once, also      *)
(* after it or a later call has failed.                                    *)
(***************************************************************************)
ExternalCalls == {"get_object", "convert_from_bytes", "invoke_model", "put_object"}

C10_NoRetries ==
    /\ Range(calls) \subseteq ExternalCalls
    /\ \A op \in ExternalCalls : Count(calls, op) <= 1

C10_Witness ==
    /\ RunDone
    /\ failed_stage = "write"
    /\ calls = <<"get_object", "convert_from_bytes", "invoke_model", "put_object">>

(***************************************************************************)
(* C11.  Whenever pdf_to_base64_images has returned, its result has one    *)
(* image per page of the PDF, and the i-th image is the base64 text of the *)
(* PNG of the i-th page: no page is dropped, duplicated or moved.          *)
(***************************************************************************)
RasterizerReturned ==
    \/ pc \in {"build", "invoke", "write"}
    \/ pc = "except" /\ failed_stage \in {"build", "invoke", "write"}

C11_OneImagePerPage ==
    RasterizerReturned =>
        /\ pdf_data.kind = "pdf"
        /\ Len(pdf_base64_images) = Len(pdf_data.pages)
        /\ \A i \in 1..Len(pdf_data.pages) :
              pdf_base64_images[i] = [b64 |-> [format |-> "PNG", of |-> pdf_data.pages[i]]]

C11_Witness ==
    /\ pc = "build"
    /\ Len(pdf_data.pages) = 2
    /\ Len(pdf_base64_images) = 2

(***************************************************************************)
(* C12.  Whenever prepare_bedrock_payload has returned, the request has    *)
(* one message, of role user, whose content is the instruction text        *)
(* segment followed by one image segment per input image, in the input     *)
(* order, each base64 of media type image/png; the instruction text, the   *)
(* version marker and max_tokens = 2048 are the same for every input.      *)
(***************************************************************************)
PayloadBuilt ==
    \/ pc \in {"invoke", "write"}
    \/ pc = "except" /\ failed_stage \in {"invoke", "write"}

C12_RequestShape ==
    PayloadBuilt =>
        /\ pdf_base64_images # << >>
        /\ bedrock_payload.anthropic_version = "bedrock-2023-05-31"
        /\ bedrock_payload.max_tokens = 2048
        /\ Len(bedrock_payload.messages) = 1
        /\ LET message == bedrock_payload.messages[1]
               content == message.content
           IN  /\ message.role = "user"
               /\ Len(content) = 1 + Len(pdf_base64_images)
               /\ content[1].type = "text"
               /\ content[1] = [type |-> "text",
                                text |-> "Analyze this document and summarize the content."]
               /\ \A i \in 1..Len(pdf_base64_images) :
                     /\ content[i + 1].type = "image"
                     /\ content[i + 1].source.type = "base64"
                     /\ content[i + 1].source.media_type = "image/png"
                     /\ content[i + 1].source.data = pdf_base64_images[i]

C12_Witness ==
    /\ pc = "invoke"
    /\ Len(pdf_base64_images) = 2
    /\ Len(bedrock_payload.messages[1].content) = 3

(***************************************************************************)
(* C13.  In every envelope, built, returned or stored, on the success path *)
(* and on every failure path, processing_end_time is not before            *)
(* processing_start_time; the clock never goes backwards.                  *)
(***************************************************************************)
EndNotBeforeStart(envelope) ==
    envelope.processing_end_time >= envelope.processing_start_time

C13_EndNotBeforeStart ==
    /\ results # NoEnvelope => EndNotBeforeStart(results)
    /\ ret.kind = "return" => EndNotBeforeStart(ret.value)
    /\ \A o \in store : EndNotBeforeStart(o.Body.value)

\* The envelope of a failed run that lasted into the next second.
C13_Witness ==
    /\ RunDone
    /\ ret.kind = "return"
    /\ ret.value.status = "FAILED"
    /\ ret.value.processing_end_time > ret.value.processing_start_time

(***************************************************************************)
(* C14.  process() called with the bucket, the input key or the uuid unset *)
(* (or empty) raises at once: no storage read, no rasterization, no        *)
(* inference call, no storage write.  A run is only ever under way with    *)
(* all three set, and no step of process() changes any of them.            *)
(***************************************************************************)
C14_ParametersRequired ==
    /\ [](InRun => ParamsSet)
    /\ []((pc = "done" /\ ~ParamsSet) =>
             (calls = << >> /\ ret.kind = "raise" /\ ret.exc.type = "PDFProcessingError"))
    /\ [][(process_entry /\ ~ParamsSet) => (pc' = "done" /\ UNCHANGED <<store, puts>>)]_vars
    /\ [][process => UNCHANGED params]_vars

\* Rejected for the uuid alone: bucket and input key are set.
C14_Witness ==
    /\ pc = "done"
    /\ Truthy(input_bucket)
    /\ Truthy(input_key)
    /\ ~Truthy(uuid)
    /\ ret.kind = "raise"

(***************************************************************************)
(* C15.  Rasterization is all or nothing: when the conversion or the       *)
(* encoding of any page fails, the run holds no page image at all, and the *)
(* request sent to the model never has fewer image segments than the       *)
(* document has pages.                                                     *)
(***************************************************************************)
C15_AllOrNothing ==
    /\ failed_stage = "rasterize" =>
          /\ pdf_base64_images = << >>
          /\ "invoke_model" \notin Range(calls)
          /\ exc.type = "PDFProcessingError"
    /\ (InRun /\ "invoke_model" \in Range(calls)) =>
          Cardinality(ImageSegments(bedrock_payload)) = Len(pdf_data.pages)
    /\ pc \in {"build", "invoke"} => Len(pdf_base64_images) >= Len(pdf_data.pages)

\* The PNG of a page of a two-page document could not be written.
C15_Witness ==
    /\ pc = "except"
    /\ failed_stage = "rasterize"
    /\ Len(pdf_data.pages) = 2
    /\ exc = PDFProcessingError("Failed to convert PDF to images: " \o "cannot write PNG")

(***************************************************************************)
(* C16.  The external calls of a run come in the order storage read,       *)
(* render, invoke_model, each only after the ones before it succeeded, and *)
(* the storage write is the last step of the success path and of the       *)
(* failure path alike: a run that has ended has put_object as its last     *)
(* call.                                                                   *)
(* The code keeps the order, but its failure path ends without a write     *)
(* (see C1).                                                               *)
(***************************************************************************)
ProcessingCalls == <<"get_object", "convert_from_bytes", "invoke_model">>

C16_WriteIsLastStep ==
    /\ \E n \in 0..Len(ProcessingCalls) :
          \/ calls = SubSeq(ProcessingCalls, 1, n)
          \/ calls = Append(SubSeq(ProcessingCalls, 1, n), "put_object")
    /\ RunDone => (calls # << >> /\ calls[Len(calls)] = "put_object")

(***************************************************************************)
(* C17.  The start timestamp is taken at entry, before the storage read,   *)
(* and the end timestamp of every envelope of a run is taken before that   *)
(* run attempts a storage write: the SUCCESS envelope is stamped before    *)
(* put_object is called, and a FAILED envelope, stamped in the except      *)
(* clause as the run ends, belongs to a run that attempted no put.         *)
(* The code stamps the FAILED envelope of a failed write after the put     *)
(* (see C2).                                                               *)
(***************************************************************************)
C17_StampedBeforeWrite ==
    /\ pc = "fetch" => (calls = << >> /\ start_time <= strftime(now))
    /\ pc = "write" => (results # NoEnvelope /\ "put_object" \notin Range(calls))
    /\ (RunDone /\ ret.kind = "return" /\ ret.value.status = "FAILED")
          => "put_object" \notin Range(calls)

(***************************************************************************)
(* C18.  process() returns a SUCCESS envelope only after its put_object    *)
(* succeeded, and then the one object at the output key of the run is the  *)
(* JSON text of exactly the returned envelope, of content type             *)
(* application/json.                                                       *)
(***************************************************************************)
ObjectsAt(bucket, key) == {o \in store : o.Bucket = bucket /\ o.Key = key}

C18_SuccessIsPersisted ==
    (RunDone /\ ret.kind = "return" /\ ret.value.status = "SUCCESS") =>
        /\ failed_stage = "none"
        /\ calls = Append(ProcessingCalls, "put_object")
        /\ ObjectsAt(input_bucket, output_key(uuid, input_key))
              = {[Bucket |-> input_bucket,
                  Key |-> output_key(uuid, input_key),
                  Body |-> json_dumps(ret.value),
                  ContentType |-> "application/json"]}

C18_Witness ==
    /\ RunDone
    /\ ret.kind = "return"
    /\ ret.value.status = "SUCCESS"
    /\ ret.value.pdf_key = <<"a", "/", "r", ".", "p">>
    /\ \E o \in store : o.Body = json_dumps(ret.value)

(***************************************************************************)
(* C19.  The output key depends on the input key only through its last     *)
(* component without the extension: under one bucket and uuid, puts whose  *)
(* input keys have the same stem (a/r.p and r.q) go to the same key.  The  *)
(* bucket holds one object per key, and a successful write leaves at its   *)
(* key the envelope of the run that wrote last.                            *)
(***************************************************************************)
C19_SameStemSameKey ==
    /\ [](\A p, q \in puts :
             (p.Bucket = q.Bucket /\ p.uuid = q.uuid
                 /\ Stems(p.input_key) = Stems(q.input_key)) => p.Key = q.Key)
    /\ [](\A o1, o2 \in store : (o1.Bucket = o2.Bucket /\ o1.Key = o2.Key) => o1 = o2)
    /\ [][(pc = "write" /\ pc' = "done") =>
             \A o \in store' :
                 (o.Bucket = input_bucket /\ o.Key = output_key(uuid, input_key))
                     => o.Body.value.pdf_key = input_key]_vars

\* The run for r.q has written where a run for a/r.p had put its envelope.
C19_Witness ==
    /\ RunDone
    /\ ret.kind = "return"
    /\ ret.value.status = "SUCCESS"
    /\ input_key = <<"r", ".", "q">>
    /\ \E p \in puts :
          /\ p.input_key = <<"a", "/", "r", ".", "p">>
          /\ p.uuid = uuid
          /\ p.Key = output_key(uuid, input_key)
    /\ \A o \in ObjectsAt(input_bucket, output_key(uuid, input_key)) :
          o.Body.value.pdf_key = <<"r", ".", "q">>

====
